---- MODULE Spec2Model ----
(***************************************************************************)
(* PyPaint (src/paint.py): the drawing area's stroke handling, the three   *)
(* QImage references it keeps (image, savedImage, resizeSavedImage), and   *)
(* the window's resize / save / open / undo / clear handlers.              *)
(*                                                                         *)
(* A QImage is a Python object: two attributes may name the same object,   *)
(* and a QPainter, fill or loadFromData on one is then seen through the    *)
(* other.  The model keeps a heap of image objects and three references.   *)
(* Pixels are modelled on a small raster; the pen is its colour and width  *)
(* (style, cap and join are passed to QPen unchanged and are left out).    *)
(***************************************************************************)
EXTENDS Integers, Sequences, FiniteSets, TLC

\* ---------------------------------------------------------------- bounds
MaxW == 2
MaxH == 1
MaxBrushSize == 2

Widths == 1..MaxW
Heights == 1..MaxH
\* positions a pointer event can carry
Pos == (0..(MaxW - 1)) \X (0..(MaxH - 1))
Colors == {"white", "black"}
BrushSizes == 1..MaxBrushSize
ObjIds == {1, 2, 3}

\* ------------------------------------------------------- Qt value types
LeftButton == 1
RightButton == 2
MouseButton == {LeftButton, RightButton}

\* QPoint(): the null point
QPoint == <<0, 0>>

Pixels(w, h) == (0..(w - 1)) \X (0..(h - 1))

\* QImage(w, h, fmt) followed by fill(colour)
Filled(w, h, c) == [w |-> w, h |-> h, px |-> [p \in Pixels(w, h) |-> c]]

\* QImage(0, 0, fmt): the null image
NullImage == Filled(0, 0, "white")

Abs(n) == IF n < 0 THEN 0 - n ELSE n
Max2(a, b) == IF a > b THEN a ELSE b
Min2(a, b) == IF a < b THEN a ELSE b

\* pixels covered by a pen of width s put down at p
Footprint(p, s) ==
    { q \in (((p[1] - (s \div 2))..(p[1] + ((s - 1) \div 2)))
             \X ((p[2] - (s \div 2))..(p[2] + ((s - 1) \div 2)))) : TRUE }

\* pixels of the straight segment from a to b (a = b gives the one pixel)
Segment(a, b) ==
    LET dx == b[1] - a[1]
        dy == b[2] - a[2]
        len == Max2(Abs(dx), Abs(dy))
    IN { q \in ((Min2(a[1], b[1])..Max2(a[1], b[1]))
                \X (Min2(a[2], b[2])..Max2(a[2], b[2]))) :
           2 * Abs(((q[1] - a[1]) * dy) - ((q[2] - a[2]) * dx)) <= len }

Stroke(a, b, s) == UNION { Footprint(q, s) : q \in Segment(a, b) }

\* what a QPainter on img does for a pen (c, s) along a..b; a painter on a
\* null image does not begin and paints nothing
Paint(img, a, b, c, s) ==
    [img EXCEPT !.px = [q \in DOMAIN img.px |->
                           IF q \in Stroke(a, b, s) THEN c ELSE img.px[q]]]

\* QImage.scaled(w, h, IgnoreAspectRatio): a new image, the content
\* stretched; a null image stays null
Scaled(img, w, h) ==
    IF img.w = 0 \/ img.h = 0 \/ w = 0 \/ h = 0 THEN NullImage
    ELSE [w |-> w, h |-> h,
          px |-> [q \in Pixels(w, h) |->
                    img.px[<<(q[1] * img.w) \div w, (q[2] * img.h) \div h>>]]]

\* the painter commands a handler issues
DrawPointCmd(p, c, s) == [op |-> "point", from |-> p, to |-> p, color |-> c, size |-> s]
DrawLineCmd(a, b, c, s) == [op |-> "line", from |-> a, to |-> b, color |-> c, size |-> s]

\* ---------------------------------------------------------------- files
\* what the open dialog's file can hold: an image, or bytes that do not decode
DecodableFiles ==
    { [w |-> w, h |-> h,
       px |-> [q \in Pixels(w, h) |-> IF q[1] = 0 THEN "black" ELSE "white"]] :
         w \in Widths, h \in Heights }
\* what the open dialog yields: no path ("cancel"), a path that cannot be
\* read, or a file whose bytes are an image or do not decode ("corrupt")
Files ==
    { [kind |-> "image", data |-> d] : d \in DecodableFiles }
    \cup { [kind |-> k, data |-> NullImage] : k \in {"corrupt", "cancel", "unreadable"} }

NoPos == <<-1, -1>>
\* no content recorded
NoImage == [w |-> -1, h |-> -1, px |-> [q \in {} |-> "white"]]

\* ---------------------------------------------------------------- state
VARIABLES
    areaW, areaH,        \* DrawingArea.width(), DrawingArea.height()
    heap,                \* the QImage objects
    image,               \* DrawingArea.image
    savedImage,          \* DrawingArea.savedImage
    resizeSavedImage,    \* DrawingArea.resizeSavedImage
    drawing,             \* DrawingArea.drawing
    brushSize,           \* DrawingArea.brushSize
    brushColor,          \* DrawingArea.brushColor
    drawMode,            \* DrawingArea.drawMode
    lastPoint,           \* DrawingArea.lastPoint
    pointChecked,        \* Window.pointAction.isChecked()
    lineChecked,         \* Window.lineAction.isChecked()
    leftDown,            \* the primary mouse button is down over the area
    painted,             \* painter commands issued by the latest handler
    failure,             \* what went wrong in the latest handler
    reported,            \* what the latest handler surfaced to its caller
    lastUndo,            \* whether the latest handler was undo, and whether
                         \* it found a snapshot
    lastPress,           \* history: the latest Line-mode primary press since
                         \* the latest mode change
    pendingClick,        \* history: first Line-mode click awaiting its second
    discarded,           \* history: "fresh" once a mode change found a Line
                         \* anchor pending, "pressed" after the next primary
                         \* press, "none" otherwise
    afterStroke,         \* history: live content at the latest releases
    undone,              \* history: undos since the latest release
    strokeBase,          \* history: live content before the earliest stroke
                         \* that afterStroke records
    undoTook,            \* history: the live content the latest undo replaced
    strokeAt,            \* history: where the pointer last was since the
                         \* Point-mode primary press whose button is still
                         \* down
    ignored              \* history: the latest handler was a press of a
                         \* button other than the primary one

vars == <<areaW, areaH, heap, image, savedImage, resizeSavedImage, drawing,
          brushSize, brushColor, drawMode, lastPoint, pointChecked,
          lineChecked, leftDown, painted, failure, reported, lastUndo,
          lastPress, pendingClick,
          discarded, afterStroke, undone, strokeBase, undoTook, strokeAt,
          ignored>>

brushVars == <<brushSize, brushColor>>
menuVars == <<pointChecked, lineChecked>>
imageVars == <<heap, image, savedImage, resizeSavedImage>>
strokeHistory == <<afterStroke, undone>>
pointerHistory == <<strokeBase, undoTook, strokeAt, ignored>>

\* the latest handler was not undo
NoUndo == "none"

\* the content of the live canvas
Live == heap[image]

\* an object id no reference holds, for the QImage a handler creates
NewObj == 0
NewObj2 == 4

\* the heap h with a new object at id
Alloc(h, id, img) == [k \in (DOMAIN h) \cup {id} |-> IF k = id THEN img ELSE h[k]]

\* Object ids are addresses: only which references name the same object
\* matters.  The references i (image), s (savedImage), r (resizeSavedImage)
\* into h are renamed in that order to 1, 2, 3 and every other object is
\* reclaimed.
Canon(h, i, s, r) ==
    LET cs == IF s = i THEN 1 ELSE 2
        cr == IF r = i THEN 1 ELSE IF r = s THEN cs ELSE IF s = i THEN 2 ELSE 3
    IN [heap |-> [k \in ObjIds |-> IF k = 1 THEN h[i]
                                   ELSE IF k = cs THEN h[s]
                                   ELSE IF k = cr THEN h[r]
                                   ELSE NullImage],
        image |-> 1, savedImage |-> cs, resizeSavedImage |-> cr]

\* the handler leaves the heap h and the references i, s, r
SetImages(h, i, s, r) ==
    LET c == Canon(h, i, s, r)
    IN /\ heap' = c.heap
       /\ image' = c.image
       /\ savedImage' = c.savedImage
       /\ resizeSavedImage' = c.resizeSavedImage

\* ---------------------------------------------------------------- Init
Init ==
    /\ areaW \in Widths
    /\ areaH \in Heights
    /\ image = 1
    /\ savedImage = 2
    /\ resizeSavedImage = 3
    /\ heap = [i \in ObjIds |-> IF i = 1 THEN Filled(areaW, areaH, "white") ELSE NullImage]
    /\ drawing = FALSE
    /\ brushSize = 1
    /\ brushColor = "black"
    /\ drawMode = "Point"
    /\ lastPoint = QPoint
    /\ pointChecked = TRUE
    /\ lineChecked = FALSE
    /\ leftDown = FALSE
    /\ painted = <<>>
    /\ failure = "none"
    /\ reported = "nothing"
    /\ lastUndo = NoUndo
    /\ lastPress = NoPos
    /\ pendingClick = NoPos
    /\ discarded = "none"
    /\ afterStroke = <<>>
    /\ undone = 0
    /\ strokeBase = NoImage
    /\ undoTook = NullImage
    /\ strokeAt = NoPos
    /\ ignored = FALSE

\* ------------------------------------------------------- Python values
\* a & b on small non-negative integers
RECURSIVE BitAnd(_, _)
BitAnd(a, b) ==
    IF a = 0 \/ b = 0 THEN 0
    ELSE (2 * BitAnd(a \div 2, b \div 2)) + (IF a % 2 = 1 /\ b % 2 = 1 THEN 1 ELSE 0)

\* int(True) = 1, int(False) = 0
BoolInt(b) == IF b THEN 1 ELSE 0

\* event.buttons() values a move can carry: the primary button's flag is
\* set when it is down, any other button may be down too, and without
\* mouse tracking a move arrives only while some button is down
MoveButtons ==
    { f \in 1..(LeftButton + RightButton) : (BitAnd(f, LeftButton) # 0) = leftDown }

\* Python ==: objects of unrelated types are never equal
PyEq(x, y) == x.type = y.type /\ x.val = y.val
\* a Qt.MouseButton value
QtButton(b) == [type |-> "Qt.MouseButton", val |-> b]
\* the attribute event.button, not called: the bound method itself
ButtonAttr(button) == [type |-> "builtin_function_or_method", val |-> button]

\* ------------------------------------------------ DrawingArea handlers
\* a press that leaves the saved point as it was
PressAnchorStale(p) == lastPoint
\* the point a Point-mode press saves as last point
PressAnchor(p) == p

\* a press condition that takes every button
PressIsLeftAny(button) == TRUE
\* event.button() == Qt.LeftButton
PressIsLeft(button) == PyEq(QtButton(button), QtButton(LeftButton))

\* DrawingArea.mousePressEvent
mousePressEvent(button, p) ==
    /\ IF PressIsLeft(button)
       THEN /\ ~leftDown
            /\ leftDown' = TRUE
            /\ IF drawMode = "Point"
               THEN /\ heap' = [heap EXCEPT ![image] = Paint(@, p, p, brushColor, brushSize)]
                    /\ painted' = <<DrawPointCmd(p, brushColor, brushSize)>>
                    /\ drawing' = TRUE
                    /\ lastPoint' = PressAnchor(p)
                    /\ UNCHANGED <<pendingClick, lastPress>>
               ELSE /\ IF lastPoint = QPoint
                       THEN /\ lastPoint' = p
                            /\ painted' = <<>>
                            /\ UNCHANGED heap
                       ELSE /\ heap' = [heap EXCEPT ![image] =
                                           Paint(@, lastPoint, p, brushColor, brushSize)]
                            /\ painted' = <<DrawLineCmd(lastPoint, p, brushColor, brushSize)>>
                            /\ lastPoint' = QPoint
                    /\ pendingClick' = IF pendingClick = NoPos THEN p ELSE NoPos
                    /\ lastPress' = p
                    /\ UNCHANGED drawing
            /\ discarded' = IF discarded = "fresh" THEN "pressed" ELSE "none"
       ELSE /\ painted' = <<>>
            /\ UNCHANGED <<heap, drawing, lastPoint, pendingClick, discarded, leftDown,
                           lastPress>>
    /\ failure' = "none"
    /\ reported' = "nothing"
    /\ lastUndo' = NoUndo
    /\ UNCHANGED <<areaW, areaH, image, savedImage, resizeSavedImage, brushVars,
                   drawMode, menuVars>>

\* a move condition that leaves the drawing flag out
MoveDrawsAnyFlag(buttons) ==
    BitAnd(BitAnd(buttons, LeftButton), BoolInt(drawMode = "Point")) # 0
\* the condition of DrawingArea.mouseMoveEvent
MoveDraws(buttons) ==
    BitAnd(BitAnd(BitAnd(buttons, LeftButton), BoolInt(drawing)),
           BoolInt(drawMode = "Point")) # 0

\* DrawingArea.mouseMoveEvent
mouseMoveEvent(buttons, p) ==
    /\ UNCHANGED leftDown
    /\ UNCHANGED <<areaW, areaH, image, savedImage, resizeSavedImage, drawing,
                   brushVars, drawMode, menuVars, pendingClick, discarded,
                   lastPress>>
    /\ failure' = "none"
    /\ reported' = "nothing"
    /\ lastUndo' = NoUndo
    /\ buttons \in MoveButtons
    /\ IF MoveDraws(buttons)
       THEN /\ lastPoint' = p
            /\ painted' = <<DrawLineCmd(lastPoint, p, brushColor, brushSize)>>
            /\ heap' = [heap EXCEPT ![image] =
                           Paint(@, lastPoint, p, brushColor, brushSize)]
       ELSE /\ painted' = <<>>
            /\ UNCHANGED <<heap, lastPoint>>

\* a release condition that calls event.button()
ReleaseIsLeftCalled(button) == PyEq(QtButton(button), QtButton(LeftButton))
\* the condition of DrawingArea.mouseReleaseEvent
ReleaseIsLeft(button) == PyEq(ButtonAttr(button), QtButton(LeftButton))

\* DrawingArea.mouseReleaseEvent
mouseReleaseEvent(button, p) ==
    /\ IF button = LeftButton
       THEN leftDown /\ leftDown' = FALSE
       ELSE UNCHANGED leftDown
    /\ IF ReleaseIsLeft(button)
       THEN /\ SetImages(heap, image, resizeSavedImage, image)
            /\ drawing' = FALSE
       ELSE UNCHANGED <<imageVars, drawing>>
    /\ painted' = <<>>
    /\ failure' = "none"
    /\ reported' = "nothing"
    /\ lastUndo' = NoUndo
    /\ UNCHANGED <<areaW, areaH, brushVars, drawMode, lastPoint, menuVars,
                   pendingClick, discarded,
                   lastPress>>

\* --------------------------------------------------------------- resize
\* DrawingArea.resizeEvent on the pair (heap, image), the area being w x h
DrawingArea_resizeEvent(st, w, h) ==
    [heap |-> Alloc(st.heap, NewObj, Scaled(st.heap[st.image], w, h)),
     image |-> NewObj]

\* Window.resizeEvent on the pair (heap, image), the area being w x h
Window_resizeEvent(st, w, h) ==
    IF st.heap[resizeSavedImage].w # 0
    THEN [heap |-> Alloc(st.heap, NewObj2, Scaled(st.heap[resizeSavedImage], w, h)),
          image |-> NewObj2]
    ELSE st

\* The window is resized and its layout gives the drawing area the size
\* nw x nh.  Both resize handlers run; the toolkit decides which runs first,
\* and the window's handler reads the area's size as it is at that moment.
resize(nw, nh, windowFirst) ==
    /\ <<nw, nh>> # <<areaW, areaH>>
    /\ LET st0 == [heap |-> heap, image |-> image]
           st2 == IF windowFirst
                  THEN DrawingArea_resizeEvent(Window_resizeEvent(st0, areaW, areaH), nw, nh)
                  ELSE Window_resizeEvent(DrawingArea_resizeEvent(st0, nw, nh), nw, nh)
       IN SetImages(st2.heap, st2.image, savedImage, resizeSavedImage)
    /\ areaW' = nw
    /\ areaH' = nh
    /\ painted' = <<>>
    /\ failure' = "none"
    /\ reported' = "nothing"
    /\ lastUndo' = NoUndo
    /\ UNCHANGED <<drawing, brushVars, drawMode, lastPoint, menuVars, leftDown,
                   pendingClick, discarded,
                   lastPress>>

\* ------------------------------------------------------ Window handlers
\* a mode change that keeps the saved point
ModeChangePointKept(lp) == lp
\* the saved point after a mode change: reset
ModeChangePoint(lp) == QPoint

\* the check marks of pointAction and lineAction once the triggered
\* checkable action has toggled its own
ActionToggled(text) ==
    IF text = "Point" THEN <<~pointChecked, lineChecked>>
    ELSE <<pointChecked, ~lineChecked>>
\* a setChecked that leaves the check mark as it was
SetCheckedKept(was, checked) == was
\* QAction.setChecked(checked): the check mark becomes checked
SetChecked(was, checked) == checked

\* a trigger of the Point or Line menu action: the checkable action toggles
\* its own check mark, then Window.changeDrawMode runs
changeDrawMode(text) ==
    /\ LET toggled == ActionToggled(text)
       IN IF text = "Point"
          THEN /\ pointChecked' = SetChecked(toggled[1], TRUE)
               /\ lineChecked' = SetChecked(toggled[2], FALSE)
               /\ drawMode' = "Point"
          ELSE /\ pointChecked' = SetChecked(toggled[1], FALSE)
               /\ lineChecked' = SetChecked(toggled[2], TRUE)
               /\ drawMode' = "Line"
    /\ lastPoint' = ModeChangePoint(lastPoint)
    /\ painted' = <<>>
    /\ failure' = "none"
    /\ reported' = "nothing"
    /\ discarded' = IF drawMode = "Line" /\ pendingClick # NoPos THEN "fresh"
                    ELSE IF discarded = "fresh" THEN "fresh" ELSE "none"
    /\ pendingClick' = NoPos
    /\ lastPress' = NoPos
    /\ lastUndo' = NoUndo
    /\ UNCHANGED <<areaW, areaH, imageVars, drawing, brushVars, leftDown>>

\* Window.sizeSliderChange (valueChanged: the value differs from the old one)
sizeSliderChange(value) ==
    /\ value # brushSize
    /\ brushSize' = value
    /\ painted' = <<>>
    /\ failure' = "none"
    /\ reported' = "nothing"
    /\ lastUndo' = NoUndo
    /\ UNCHANGED <<areaW, areaH, imageVars, drawing, brushColor, drawMode,
                   lastPoint, menuVars, leftDown, pendingClick, discarded,
                   lastPress>>

\* Window.showColorDialog: col is the colour picked, "invalid" on cancel
showColorDialog(col) ==
    /\ IF col # "invalid" THEN brushColor' = col ELSE UNCHANGED brushColor
    /\ painted' = <<>>
    /\ failure' = "none"
    /\ reported' = "nothing"
    /\ lastUndo' = NoUndo
    /\ UNCHANGED <<areaW, areaH, imageVars, drawing, brushSize, drawMode,
                   lastPoint, menuVars, leftDown, pendingClick, discarded,
                   lastPress>>

\* a save that fills the image it could not write
saveBlanking(result) ==
    /\ failure' = IF result = "unwritable" THEN "save" ELSE "none"
    /\ reported' = "nothing"
    /\ painted' = <<>>
    /\ lastUndo' = NoUndo
    /\ heap' = IF result = "unwritable"
               THEN [heap EXCEPT ![image] = Filled(@.w, @.h, "white")]
               ELSE heap
    /\ UNCHANGED <<areaW, areaH, image, savedImage, resizeSavedImage, drawing,
                   brushVars, drawMode, lastPoint, menuVars, leftDown,
                   pendingClick, discarded, lastPress>>
\* Window.save: the dialog is cancelled, or QImage.save writes the file or
\* returns False; its result is dropped
save(result) ==
    /\ failure' = IF result = "unwritable" THEN "save" ELSE "none"
    /\ reported' = "nothing"
    /\ painted' = <<>>
    /\ lastUndo' = NoUndo
    /\ UNCHANGED <<areaW, areaH, imageVars, drawing, brushVars, drawMode,
                   lastPoint, menuVars, leftDown, pendingClick, discarded,
                   lastPress>>

\* QImage.loadFromData: the image becomes the decoded one, or the null
\* image when the data does not decode (the result is False)
LoadFromData(img, file) == IF file.kind = "image" THEN file.data ELSE NullImage

\* Window.open: the dialog is cancelled, the file cannot be read (the
\* built-in open raises), or its content is loaded
open(file) ==
    /\ IF file.kind = "cancel"
       THEN /\ failure' = "none"
            /\ reported' = "nothing"
            /\ UNCHANGED imageVars
       ELSE IF file.kind = "unreadable"
       THEN /\ failure' = "read"
            /\ reported' = "exception"
            /\ UNCHANGED imageVars
       ELSE /\ LET loaded == [heap EXCEPT ![image] = LoadFromData(@, file)]
                   scaled == Alloc(loaded, NewObj, Scaled(loaded[image], areaW, areaH))
               IN SetImages(scaled, NewObj, savedImage, NewObj)
            /\ failure' = IF file.kind = "corrupt" THEN "decode" ELSE "none"
            /\ reported' = "nothing"
    /\ painted' = <<>>
    /\ lastUndo' = NoUndo
    /\ UNCHANGED <<areaW, areaH, drawing, brushVars, drawMode, lastPoint,
                   menuVars, leftDown, pendingClick, discarded,
                   lastPress>>

\* an undo that leaves the live content when there is no snapshot
UndoImageStale ==
    IF heap[savedImage].w # 0
    THEN Scaled(heap[savedImage], areaW, areaH)
    ELSE Live
\* the image Window.undo makes the live one
UndoImage ==
    IF heap[savedImage].w # 0
    THEN Scaled(heap[savedImage], areaW, areaH)
    ELSE Filled(areaW, areaH, "white")

\* Window.undo
undo ==
    /\ LET copyImage == image
       IN SetImages(Alloc(heap, NewObj, UndoImage), NewObj, copyImage, resizeSavedImage)
    /\ painted' = <<>>
    /\ failure' = "none"
    /\ reported' = "nothing"
    /\ lastUndo' = IF heap[savedImage].w # 0 THEN "snapshot" ELSE "nosnapshot"
    /\ UNCHANGED <<areaW, areaH, drawing, brushVars, drawMode, lastPoint,
                   menuVars, leftDown, pendingClick, discarded,
                   lastPress>>

\* a clear that also ends the stroke and drops the anchor
clearResetting ==
    /\ heap' = [heap EXCEPT ![image] = Filled(@.w, @.h, "white")]
    /\ painted' = <<>>
    /\ failure' = "none"
    /\ reported' = "nothing"
    /\ lastUndo' = NoUndo
    /\ lastPoint' = QPoint
    /\ drawing' = FALSE
    /\ UNCHANGED <<areaW, areaH, image, savedImage, resizeSavedImage,
                   brushVars, drawMode, menuVars, leftDown, pendingClick,
                   discarded, lastPress>>
\* Window.clear
clear ==
    /\ heap' = [heap EXCEPT ![image] = Filled(@.w, @.h, "white")]
    /\ painted' = <<>>
    /\ failure' = "none"
    /\ reported' = "nothing"
    /\ lastUndo' = NoUndo
    /\ UNCHANGED <<areaW, areaH, image, savedImage, resizeSavedImage, drawing,
                   brushVars, drawMode, lastPoint, menuVars, leftDown,
                   pendingClick, discarded,
                   lastPress>>

\* ----------------------------------------------------------------- Next
Press == \E b \in MouseButton, p \in Pos : mousePressEvent(b, p)
Move == \E f \in MoveButtons, p \in Pos : mouseMoveEvent(f, p)
Release == \E b \in MouseButton, p \in Pos : mouseReleaseEvent(b, p)
Resize == \E nw \in Widths, nh \in Heights, wf \in BOOLEAN : resize(nw, nh, wf)
ChangeMode == \E t \in {"Point", "Line"} : changeDrawMode(t)
SizeSlider == \E v \in BrushSizes : sizeSliderChange(v)
ColorDialog == \E c \in Colors \cup {"invalid"} : showColorDialog(c)
Save == \E r \in {"cancel", "ok", "unwritable"} : save(r)
Open == \E f \in Files : open(f)

\* the program: every handler, the stroke history not recorded
Next ==
    \/ Press /\ UNCHANGED <<strokeHistory, pointerHistory>>
    \/ Move /\ UNCHANGED <<strokeHistory, pointerHistory>>
    \/ Release /\ UNCHANGED <<strokeHistory, pointerHistory>>
    \/ Resize /\ UNCHANGED <<strokeHistory, pointerHistory>>
    \/ ChangeMode /\ UNCHANGED <<strokeHistory, pointerHistory>>
    \/ SizeSlider /\ UNCHANGED <<strokeHistory, pointerHistory>>
    \/ ColorDialog /\ UNCHANGED <<strokeHistory, pointerHistory>>
    \/ Save /\ UNCHANGED <<strokeHistory, pointerHistory>>
    \/ Open /\ UNCHANGED <<strokeHistory, pointerHistory>>
    \/ undo /\ UNCHANGED <<strokeHistory, pointerHistory>>
    \/ clear /\ UNCHANGED <<strokeHistory, pointerHistory>>

Spec == Init /\ [][Next]_vars

\* ------------------------------------------------------- stroke history
Last2(s) == IF Len(s) > 2 THEN SubSeq(s, Len(s) - 1, Len(s)) ELSE s

\* an operation other than a stroke or an undo ends the recorded history
HistoryBroken == afterStroke' = <<>> /\ undone' = 0
\* so does drawing after an undo
HistoryDrawn ==
    IF undone > 0 THEN HistoryBroken ELSE UNCHANGED strokeHistory
\* a primary release completes a stroke: the live content is recorded,
\* unless an undo came during the stroke
HistoryReleased(button) ==
    IF button = LeftButton
    THEN IF undone > 0 THEN HistoryBroken
         ELSE afterStroke' = Last2(Append(afterStroke, Live')) /\ undone' = 0
    ELSE UNCHANGED strokeHistory
\* undos in a row are counted up to the second
HistoryUndone ==
    IF undone >= 2 THEN HistoryBroken
    ELSE undone' = undone + 1 /\ UNCHANGED afterStroke

\* strokes, mode changes, undo, resize, open and clear with the default
\* brush, the content at the two latest primary releases recorded
StrokeNext ==
    \/ Press /\ HistoryDrawn /\ UNCHANGED pointerHistory
    \/ Move /\ HistoryDrawn /\ UNCHANGED pointerHistory
    \/ \E b \in MouseButton, p \in Pos :
          mouseReleaseEvent(b, p) /\ HistoryReleased(b) /\ UNCHANGED pointerHistory
    \/ ChangeMode /\ UNCHANGED <<strokeHistory, pointerHistory>>
    \/ undo /\ HistoryUndone /\ UNCHANGED pointerHistory
    \/ Resize /\ HistoryBroken /\ UNCHANGED pointerHistory
    \/ Open /\ HistoryBroken /\ UNCHANGED pointerHistory
    \/ clear /\ HistoryBroken /\ UNCHANGED pointerHistory

StrokeSpec == Init /\ [][StrokeNext]_vars

\* ------------------------------------------------------ pointer history
\* a press: a primary one starts a stroke, on the content it finds when no
\* earlier stroke is recorded, and at p when the mode is Point
PressSeen(button, p) ==
    /\ strokeBase' = IF button = LeftButton
                      THEN (IF undone > 0 \/ afterStroke = <<>> THEN Live ELSE strokeBase)
                      ELSE (IF undone > 0 THEN NoImage ELSE strokeBase)
    /\ strokeAt' = IF button = LeftButton /\ drawMode = "Point" THEN p ELSE strokeAt
    /\ ignored' = (button # LeftButton)
    /\ UNCHANGED undoTook
\* a move: the pointer of a Point stroke under way is now at p
MoveSeen(p) ==
    /\ strokeBase' = IF undone > 0 THEN NoImage ELSE strokeBase
    /\ strokeAt' = IF strokeAt # NoPos THEN p ELSE strokeAt
    /\ ignored' = FALSE
    /\ UNCHANGED undoTook
\* a release: a primary one ends the stroke, and the record moves on by one
\* stroke when it is full
ReleaseSeen(button) ==
    /\ strokeBase' = IF button # LeftButton THEN strokeBase
                      ELSE IF undone > 0 THEN NoImage
                      ELSE IF Len(afterStroke) = 2 THEN afterStroke[1]
                      ELSE strokeBase
    /\ strokeAt' = IF button = LeftButton THEN NoPos ELSE strokeAt
    /\ ignored' = FALSE
    /\ UNCHANGED undoTook
\* a mode change: the button stays as it is, and so does the pointer
ModeSeen ==
    /\ ignored' = FALSE
    /\ UNCHANGED <<strokeBase, undoTook, strokeAt>>
\* an undo replaces the live content
UndoSeen ==
    /\ undoTook' = Live
    /\ strokeBase' = IF undone >= 2 THEN NoImage ELSE strokeBase
    /\ ignored' = FALSE
    /\ UNCHANGED strokeAt
\* resize and clear end the recorded history
BreakSeen ==
    /\ strokeBase' = NoImage
    /\ ignored' = FALSE
    /\ UNCHANGED <<undoTook, strokeAt>>

\* strokes, mode changes, undo, resize and clear with the default brush,
\* the stroke history and the pointer history recorded
InputNext ==
    \/ \E b \in MouseButton, p \in Pos :
          mousePressEvent(b, p) /\ HistoryDrawn /\ PressSeen(b, p)
    \/ \E f \in MoveButtons, p \in Pos :
          mouseMoveEvent(f, p) /\ HistoryDrawn /\ MoveSeen(p)
    \/ \E b \in MouseButton, p \in Pos :
          mouseReleaseEvent(b, p) /\ HistoryReleased(b) /\ ReleaseSeen(b)
    \/ ChangeMode /\ UNCHANGED strokeHistory /\ ModeSeen
    \/ undo /\ HistoryUndone /\ UndoSeen
    \/ Resize /\ HistoryBroken /\ BreakSeen
    \/ clear /\ HistoryBroken /\ BreakSeen

InputSpec == Init /\ [][InputNext]_vars

\* --------------------------------------------------------------- claims
\* C1: in Line mode, starting with no anchor pending, a first primary press
\* at p draws nothing and leaves p as the pending anchor; the next primary
\* press at q draws exactly one line from p to q and leaves no anchor
\* pending (for every p and q, p = (0,0) and q = p included).
C1_LineTwoPresses ==
    [][\A q \in Pos :
         (drawMode = "Line" /\ mousePressEvent(LeftButton, q)) =>
            IF pendingClick = NoPos
            THEN /\ painted' = <<>>
                 /\ Live' = Live
                 /\ lastPoint' = q
            ELSE /\ painted' = <<DrawLineCmd(pendingClick, q, brushColor, brushSize)>>
                 /\ Live' = Paint(Live, pendingClick, q, brushColor, brushSize)
                 /\ lastPoint' = QPoint]_vars

\* C2: once mouseReleaseEvent has run for the primary button at the end of
\* a Point-mode stroke, the drawing flag is false.
C2_ReleaseEndsStroke ==
    [][\A p \in Pos :
         (drawMode = "Point" /\ drawing /\ mouseReleaseEvent(LeftButton, p))
            => ~drawing']_vars

\* C3: after stroke A and then stroke B were each completed by a primary
\* release, the first undo makes the live canvas its content right after
\* stroke A, and a second undo makes it its content after stroke B.
C3_OneStepUndo ==
    [][(undo /\ Len(afterStroke) = 2) =>
          /\ (undone = 0 => Live' = afterStroke[1])
          /\ (undone = 1 => Live' = afterStroke[2])]_vars

\* C4: when a snapshot exists, undo makes the live content the snapshot
\* rescaled to the viewport and the snapshot the former live content; so
\* a second undo right after it restores the live content from before the
\* first (which the first undo has left in the snapshot).
C4_UndoSwaps ==
    [][undo =>
          /\ (heap[savedImage].w # 0 =>
                 /\ Live' = Scaled(heap[savedImage], areaW, areaH)
                 /\ heap'[savedImage'] = Live)
          /\ (lastUndo = "snapshot" => Live' = heap[savedImage])]_vars

\* C5: an undo that finds no snapshot (stored image of width 0) leaves the
\* live canvas all white with the viewport's dimensions.
C5_UndoWithoutSnapshot ==
    (lastUndo = "nosnapshot") => Live = Filled(areaW, areaH, "white")

\* an undo without snapshot has just replaced a canvas with black on it
\* (the undo keeps the replaced image as the new snapshot)
C5_Witness ==
    /\ lastUndo = "nosnapshot"
    /\ \E q \in DOMAIN heap[savedImage].px : heap[savedImage].px[q] = "black"
    /\ Live = Filled(areaW, areaH, "white")
    /\ areaW = MaxW

\* C6: an open whose data does not decode leaves the live canvas and both
\* history slots as they were.
C6_FailedOpenKeepsCanvas ==
    [][\A f \in Files :
         (f.kind = "corrupt" /\ open(f)) =>
            /\ Live' = Live
            /\ heap'[savedImage'] = heap[savedImage]
            /\ heap'[resizeSavedImage'] = heap[resizeSavedImage]]_vars

\* C7: every failure of save or open is reported to the host as an error:
\* none is dropped and none leaves the handler as an exception.
C7_FailuresReported == (failure # "none") => (reported = "error")

\* C8: a mode change that finds a Line anchor pending unsets the anchor and
\* draws nothing; the first primary press after it draws no line, and every
\* line a primary press draws starts at the point of the primary press
\* before it, made since the latest mode change.
C8_ModeChangeDiscardsAnchor ==
    [][/\ \A t \in {"Point", "Line"} :
            (drawMode = "Line" /\ pendingClick # NoPos /\ changeDrawMode(t)) =>
               /\ lastPoint' = QPoint
               /\ painted' = <<>>
               /\ UNCHANGED imageVars
       /\ \A q \in Pos :
            mousePressEvent(LeftButton, q) =>
               /\ (discarded = "fresh" =>
                      \A i \in 1..Len(painted') : painted'[i].op # "line")
               /\ \A i \in 1..Len(painted') :
                      painted'[i].op = "line" =>
                         (lastPress # NoPos /\ painted'[i].from = lastPress)]_vars

\* a Line anchor away from the null point was discarded by a change to
\* Point mode and the next primary press has drawn its point
C8_Witness ==
    /\ discarded = "pressed"
    /\ drawMode = "Point"
    /\ leftDown
    /\ painted = <<DrawPointCmd(lastPoint, brushColor, brushSize)>>

\* C9: a viewport resize leaves the live canvas with the content it had
\* right before, stretched to the new dimensions.
C9_ResizeRescales ==
    [][\A nw \in Widths, nh \in Heights, wf \in BOOLEAN :
         resize(nw, nh, wf) => Live' = Scaled(Live, nw, nh)]_vars

\* C10: a primary press at p in Point mode issues exactly one draw-point
\* command at p on the live image with the current brush, sets the drawing
\* flag and makes p the anchor.
C10_PointPress ==
    [][\A p \in Pos :
         (drawMode = "Point" /\ mousePressEvent(LeftButton, p)) =>
            /\ painted' = <<DrawPointCmd(p, brushColor, brushSize)>>
            /\ Live' = Paint(Live, p, p, brushColor, brushSize)
            /\ image' = image
            /\ drawing'
            /\ lastPoint' = p]_vars

\* a Point-mode press away from the null point has just painted its pixel
C10_Witness ==
    /\ drawMode = "Point"
    /\ leftDown
    /\ drawing
    /\ lastPoint # QPoint
    /\ lastPoint \in DOMAIN Live.px
    /\ painted = <<DrawPointCmd(lastPoint, brushColor, brushSize)>>
    /\ Live.px[lastPoint] = brushColor
    /\ brushColor = "black"

\* C11: a move to c draws exactly one line from the anchor to c and makes c
\* the anchor if and only if the primary button is held, the drawing flag
\* is set and the mode is Point; any other move leaves the live image, the
\* anchor, the drawing flag and the history slots as they were.  (A step
\* that changes the button state, the mode, the area or the image object
\* is no move, which is tested first.)
C11_MoveDrawsIff ==
    [][UNCHANGED <<leftDown, drawMode, areaW, areaH, image>> =>
         \A f \in MoveButtons : \A c \in Pos :
            mouseMoveEvent(f, c) =>
               IF leftDown /\ drawing /\ drawMode = "Point"
               THEN /\ lastPoint' = c
                    /\ UNCHANGED <<image, savedImage, resizeSavedImage, drawing>>
                    /\ painted' = <<DrawLineCmd(lastPoint, c, brushColor, brushSize)>>
                    /\ Live' = Paint(Live, lastPoint, c, brushColor, brushSize)
               ELSE /\ painted' = <<>>
                    /\ UNCHANGED <<imageVars, lastPoint, drawing>>]_vars

\* a Point-mode move with the button held has just drawn a segment between
\* two different points
C11_Witness ==
    /\ drawMode = "Point"
    /\ leftDown
    /\ drawing
    /\ Len(painted) = 1
    /\ painted[1].op = "line"
    /\ painted[1].from # painted[1].to
    /\ painted[1].to = lastPoint
    /\ areaW = MaxW
    /\ \A q \in Segment(painted[1].from, lastPoint) : Live.px[q] = brushColor

\* C12: clear fills the live image white in place, keeps its dimensions,
\* takes no snapshot and leaves the content of both history slots as it was.
C12_ClearKeepsHistory ==
    [][clear =>
          /\ Live' = Filled(Live.w, Live.h, "white")
          /\ heap'[savedImage'] = heap[savedImage]
          /\ heap'[resizeSavedImage'] = heap[resizeSavedImage]]_vars

\* C13: save, whether cancelled, done or failed, leaves the live image, both
\* history slots, the anchor, the drawing flag, the mode and the brush as
\* they were.
C13_SaveChangesNothing ==
    [][\A r \in {"cancel", "ok", "unwritable"} :
         save(r) =>
            UNCHANGED <<imageVars, areaW, areaH, lastPoint, drawing, drawMode,
                        brushVars, menuVars>>]_vars

\* a save has just failed on a canvas with black on it, an anchor set and
\* the brush changed from its defaults
C13_Witness ==
    /\ failure = "save"
    /\ \E q \in DOMAIN Live.px : Live.px[q] = "black"
    /\ lastPoint # QPoint
    /\ drawing
    /\ brushColor = "white"
    /\ brushSize # 1

\* C14: no history slot is the same image object as the live image.
C14_SlotsNotAliased == image # savedImage /\ image # resizeSavedImage

\* C15: after a mode change, also one made during a Point stroke with the
\* button held, the drawing flag is false.
C15_ModeChangeEndsStroke ==
    [][\A t \in {"Point", "Line"} : changeDrawMode(t) => ~drawing']_vars

\* C17: the live image has the drawing area's width and height.
C17_ImageFitsArea == Live.w = areaW /\ Live.h = areaH

\* C18: the anchor is unset whenever no stroke or line is pending: in Point
\* mode with the primary button up, and in Line mode unless a first press
\* awaits its second.
C18_AnchorUnsetWhenIdle ==
    /\ (drawMode = "Point" /\ ~leftDown) => lastPoint = QPoint
    /\ drawMode = "Line" => ((lastPoint # QPoint) <=> (pendingClick # NoPos))

\* C16: every segment a move draws starts where the pointer last was in
\* the same Point stroke, at its press or its latest move: never at the
\* unset point or at a point left by an earlier stroke or by Line mode.
C16_StrokesContinuous ==
    [][\A f \in 1..(LeftButton + RightButton), c \in Pos :
         mouseMoveEvent(f, c) =>
            \A i \in DOMAIN painted' :
               painted'[i].op = "line" =>
                  strokeAt # NoPos /\ painted'[i].from = strokeAt]_vars

C20_OtherPressIgnored ==
    [][\A b \in MouseButton \ {LeftButton}, p \in Pos :
         mousePressEvent(b, p) =>
            UNCHANGED <<imageVars, lastPoint, drawing, drawMode, leftDown>>]_vars

\* a non-primary press has just come in Line mode while a first press
\* awaited its second, on a canvas with black on it
C20_Witness ==
    /\ ignored
    /\ drawMode = "Line"
    /\ lastPoint # QPoint
    /\ pendingClick = lastPoint
    /\ drawing
    /\ \E q \in DOMAIN Live.px : Live.px[q] = "black"

\* C21: undo, clear, open and a resize leave the draw mode, the anchor (a
\* pending Line-mode anchor included) and the drawing flag as they were.
C21_HistoryOpsKeepInput ==
    [][UNCHANGED <<drawMode, lastPoint, drawing, pendingClick>>
          \/ ~(undo \/ clear \/ Open \/ Resize)]_vars

\* an undo has just restored a snapshot in Line mode while a first press
\* awaited its second and the drawing flag was set
C21_Witness ==
    /\ lastUndo = "snapshot"
    /\ drawMode = "Line"
    /\ lastPoint # QPoint
    /\ pendingClick = lastPoint
    /\ drawing

\* C22: initially Point is checked and the mode is Point, and in every
\* state exactly one of the Point and Line actions is checked, the one
\* that matches the draw mode.
C22_OneModeChecked ==
    /\ <<pointChecked, lineChecked, drawMode>> = <<TRUE, FALSE, "Point">>
    /\ [](/\ pointChecked # lineChecked
          /\ pointChecked <=> drawMode = "Point"
          /\ lineChecked <=> drawMode = "Line")

\* the menu was triggered while a Line anchor was pending, and Line is the
\* action checked now
C22_Witness ==
    /\ discarded = "fresh"
    /\ drawMode = "Line"
    /\ lineChecked
    /\ ~pointChecked

====
